---------------------------- MODULE Spec2Model ----------------------------
(***************************************************************************)
(* Relation / order algebra engine and modular arithmetic engine of the    *)
(* "calculadora de conjuntos" page.                                        *)
(*                                                                         *)
(* Elements are strings (type Elem = string), a universe is an insertion-  *)
(* ordered duplicate-free list (a JavaScript Set or a sorted array), a     *)
(* relation is a list of pairs <<a, b>> together with its set of string    *)
(* keys pairKey(a, b).                                                     *)
(***************************************************************************)
EXTENDS Integers, Sequences, FiniteSets, TLC

VARIABLES
    U,              \* the universe Set<Elem>, in insertion order
    relationPairs,  \* R: the pair list of the relation
    hasseCovers,    \* H: the pair list of the Hasse edges
    orig,           \* the pair list the user entered (history)
    ops,            \* the box edited, then the derivations applied (history)
    universe,       \* layoutHasse: its universe argument
    covers,         \* layoutHasse: its covers argument
    preds,          \* layoutHasse: Map<Elem, Set<Elem>>
    succs,          \* layoutHasse: Map<Elem, Set<Elem>>
    levelMap,       \* layoutHasse: Map<Elem, number>
    queue,          \* layoutHasse: the work list
    positions,      \* layoutHasse: the returned HasseNodePos[]
    pc,             \* layoutHasse: where the call stands
    aVal,           \* modular tab: a
    nVal,           \* modular tab: n
    inv_a_n,        \* modular tab: modInv(aVal, nVal)
    gcd_a_n,        \* modular tab: egcd(Math.abs(aVal), nVal).g
    mpc,            \* modular tab: which results are computed
    call,           \* a call of an exported function: its name and arguments
    ret,            \* that call's returned value, <<>> while it is pending
    rProps,         \* the analyzer's relationProps, <<>> before the first render
    classification, \* isPartialOrder, isEquivalence and the badge shown, <<>> at first
    removed,        \* the element whose diagonal pair the user deleted last (history)
    lookup,         \* a pair [a, b] looked up in relationSet
    present,        \* relationSet.has(pairKey(a, b)), <<>> before the lookup
    RText,          \* the text of the box of R, a list of characters
    HText           \* the text of the box of H, a list of characters

orderVars  == <<U, relationPairs, hasseCovers, orig, ops>>
layoutVars == <<universe, covers, preds, succs, levelMap, queue, positions, pc>>
modVars    == <<aVal, nVal, inv_a_n, gcd_a_n, mpc>>
arithVars  == <<call, ret>>
propsVars  == <<rProps, classification, removed>>
lookupVars == <<lookup, present>>
textVars   == <<RText, HText>>
extraVars  == <<lookupVars, textVars>>
vars       == <<orderVars, layoutVars, modVars, arithVars, propsVars, extraVars>>

---------------------------------------------------------------------------
(* Bounds of the model.                                                    *)

\* longest pair list a user enters
MaxPairs == 3
\* number of derivation steps followed after the user's input
MaxOps == 3

\* the element tokens, in ascending (Array.sort) order
ElemOrder == <<"1", "2", "3">>
Elems == {ElemOrder[i] : i \in 1..Len(ElemOrder)}

Range(s) == {s[i] : i \in 1..Len(s)}

\* every duplicate-free list over Elems: the iteration orders of a Set<Elem>
RECURSIVE DistinctSeqs(_)
DistinctSeqs(S) ==
    {<<>>} \cup UNION {{<<x>> \o t : t \in DistinctSeqs(S \ {x})} : x \in S}

\* the ascending lists: what Array.from(U).sort() returns
SortedSeqs ==
    {s \in DistinctSeqs(Elems) :
        \A i, j \in 1..Len(s) : i < j =>
            \E k, l \in 1..Len(ElemOrder) : k < l /\ ElemOrder[k] = s[i] /\ ElemOrder[l] = s[j]}

\* every pair list of at most MaxPairs pairs (duplicates, loops and pairs
\* that leave the universe included)
PairLists == UNION {[1..n -> Elems \X Elems] : n \in 0..MaxPairs}

---------------------------------------------------------------------------
(* Hasse utilities.                                                        *)

pairKey(a, b) == a \o "|||" \o b

\* Set.has on the insertion-ordered universe
Has(S, x) == \E i \in 1..Len(S) : S[i] = x

\* relationSet: the key set of a pair list
relationSet(pairs) == {pairKey(pairs[i][1], pairs[i][2]) : i \in 1..Len(pairs)}

\* adj.get(a) ?? [] after the loop that fills adj from the covers
RECURSIVE AdjList(_, _)
AdjList(cv, a) ==
    IF cv = <<>> THEN <<>>
    ELSE IF cv[1][1] = a THEN <<cv[1][2]>> \o AdjList(Tail(cv), a)
         ELSE AdjList(Tail(cv), a)

\* addPair: append unless its key was seen
addPair(st, a, b) ==
    LET k == pairKey(a, b) IN
    IF k \in st.seen THEN st
    ELSE [result |-> Append(st.result, <<a, b>>), seen |-> st.seen \cup {k}]

\* faulty variant: a search that never pushes the neighbours of a visited element
RECURSIVE ClosureDfs_NoNeighbours(_, _, _, _, _)
ClosureDfs_NoNeighbours(cv, a, stack, visited, st) ==
    IF stack = <<>> THEN st
    ELSE LET v    == stack[Len(stack)]
             rest == SubSeq(stack, 1, Len(stack) - 1)
         IN IF v \in visited THEN ClosureDfs_NoNeighbours(cv, a, rest, visited, st)
            ELSE ClosureDfs_NoNeighbours(cv, a, rest, visited \cup {v}, addPair(st, a, v))

\* the while (stack.length) loop of one source element a
RECURSIVE ClosureDfs(_, _, _, _, _)
ClosureDfs(cv, a, stack, visited, st) ==
    IF stack = <<>> THEN st
    ELSE LET v    == stack[Len(stack)]
             rest == SubSeq(stack, 1, Len(stack) - 1)
         IN IF v \in visited THEN ClosureDfs(cv, a, rest, visited, st)
            ELSE LET visited2 == visited \cup {v}
                     pushed   == SelectSeq(AdjList(cv, v), LAMBDA nxt : nxt \notin visited2)
                 IN ClosureDfs(cv, a, rest \o pushed, visited2, addPair(st, a, v))

\* faulty variant: a loop that forgets the reflexive pair (a,a)
RECURSIVE ClosureLoop_NoReflexive(_, _, _, _)
ClosureLoop_NoReflexive(Useq, cv, i, st) ==
    IF i > Len(Useq) THEN st
    ELSE LET a == Useq[i] IN
         ClosureLoop_NoReflexive(Useq, cv, i + 1,
                                 ClosureDfs(cv, a, AdjList(cv, a), {}, st))

\* the for (const a of U) loop
RECURSIVE ClosureLoop(_, _, _, _)
ClosureLoop(Useq, cv, i, st) ==
    IF i > Len(Useq) THEN st
    ELSE LET a == Useq[i] IN
         ClosureLoop(Useq, cv, i + 1,
                     ClosureDfs(cv, a, AdjList(cv, a), {}, addPair(st, a, a)))

\* faulty variant: the pairs (a,a) alone are returned
transitiveClosureFromCovers_DiagonalOnly(Useq, cv) ==
    [i \in 1..Len(Useq) |-> <<Useq[i], Useq[i]>>]

transitiveClosureFromCovers(Useq, cv) ==
    ClosureLoop(Useq, cv, 1, [result |-> <<>>, seen |-> {}]).result

\* faulty variant: every pair is taken for a cover
IsCover_Always(Useq, i, a, b, relSet) == TRUE

\* faulty variant: a and b themselves are taken as intermediates
RECURSIVE IsCover_NoSkip(_, _, _, _, _)
IsCover_NoSkip(Useq, i, a, b, relSet) ==
    IF i > Len(Useq) THEN TRUE
    ELSE LET c == Useq[i] IN
         IF pairKey(a, c) \in relSet /\ pairKey(c, b) \in relSet THEN FALSE
         ELSE IsCover_NoSkip(Useq, i + 1, a, b, relSet)

\* the inner for (const c of U) loop: FALSE as soon as an intermediate is found
RECURSIVE IsCover(_, _, _, _, _)
IsCover(Useq, i, a, b, relSet) ==
    IF i > Len(Useq) THEN TRUE
    ELSE LET c == Useq[i] IN
         IF c = a \/ c = b THEN IsCover(Useq, i + 1, a, b, relSet)
         ELSE IF pairKey(a, c) \in relSet /\ pairKey(c, b) \in relSet THEN FALSE
              ELSE IsCover(Useq, i + 1, a, b, relSet)

\* faulty variant: pairs that leave U are kept
coversFromRelation_KeepsOutside(Useq, relPairs, relSet) ==
    SelectSeq(relPairs,
              LAMBDA p : p[1] # p[2] /\ IsCover(Useq, 1, p[1], p[2], relSet))

\* faulty variant: reflexive pairs are kept
coversFromRelation_KeepsReflexive(Useq, relPairs, relSet) ==
    SelectSeq(relPairs,
              LAMBDA p : /\ Has(Useq, p[1]) /\ Has(Useq, p[2])
                         /\ IsCover(Useq, 1, p[1], p[2], relSet))

coversFromRelation(Useq, relPairs, relSet) ==
    SelectSeq(relPairs,
              LAMBDA p : /\ p[1] # p[2]
                         /\ Has(Useq, p[1]) /\ Has(Useq, p[2])
                         /\ IsCover(Useq, 1, p[1], p[2], relSet))

---------------------------------------------------------------------------
(* The property analyzer (relationProps).                                  *)

\* faulty variant: the loop has no break, the last x without (x,x) is kept
RECURSIVE ReflexiveScan_NoBreak(_, _, _)
ReflexiveScan_NoBreak(Useq, i, relSet) ==
    IF i > Len(Useq) THEN <<>>
    ELSE LET rest == ReflexiveScan_NoBreak(Useq, i + 1, relSet)
         IN IF rest # <<>> THEN rest
            ELSE IF pairKey(Useq[i], Useq[i]) \notin relSet THEN <<Useq[i]>>
                 ELSE <<>>

\* reflexive: <<>> when every (x,x) is present, else <<x>> for the first
\* x of U without it
RECURSIVE ReflexiveScan(_, _, _)
ReflexiveScan(Useq, i, relSet) ==
    IF i > Len(Useq) THEN <<>>
    ELSE IF pairKey(Useq[i], Useq[i]) \notin relSet THEN <<Useq[i]>>
         ELSE ReflexiveScan(Useq, i + 1, relSet)

\* faulty variant: the key of (a,b) is looked up, not the key of (b,a)
RECURSIVE SymmetricScan_SameKey(_, _, _)
SymmetricScan_SameKey(relPairs, i, relSet) ==
    IF i > Len(relPairs) THEN <<>>
    ELSE IF pairKey(relPairs[i][1], relPairs[i][2]) \notin relSet THEN relPairs[i]
         ELSE SymmetricScan_SameKey(relPairs, i + 1, relSet)

\* symmetric: <<>> when every pair has its converse, else the first pair
\* [a, b] of the list without (b,a)
RECURSIVE SymmetricScan(_, _, _)
SymmetricScan(relPairs, i, relSet) ==
    IF i > Len(relPairs) THEN <<>>
    ELSE IF pairKey(relPairs[i][2], relPairs[i][1]) \notin relSet THEN relPairs[i]
         ELSE SymmetricScan(relPairs, i + 1, relSet)

\* faulty variant: a pair (a,a) counts as well
RECURSIVE AntisymmetricScan_WithLoops(_, _, _)
AntisymmetricScan_WithLoops(relPairs, i, relSet) ==
    IF i > Len(relPairs) THEN <<>>
    ELSE IF pairKey(relPairs[i][2], relPairs[i][1]) \in relSet THEN relPairs[i]
         ELSE AntisymmetricScan_WithLoops(relPairs, i + 1, relSet)

\* antisymmetric: <<>> when no pair of distinct elements has its converse,
\* else the first pair [a, b] of the list with a # b and (b,a) present
RECURSIVE AntisymmetricScan(_, _, _)
AntisymmetricScan(relPairs, i, relSet) ==
    IF i > Len(relPairs) THEN <<>>
    ELSE IF /\ relPairs[i][1] # relPairs[i][2]
            /\ pairKey(relPairs[i][2], relPairs[i][1]) \in relSet
         THEN relPairs[i]
         ELSE AntisymmetricScan(relPairs, i + 1, relSet)

\* faulty variant: the two loops are nested the other way round
RECURSIVE TransitiveScan_InnerFirst(_, _, _, _)
TransitiveScan_InnerFirst(relPairs, i, j, relSet) ==
    IF j > Len(relPairs) THEN <<>>
    ELSE IF i > Len(relPairs) THEN TransitiveScan_InnerFirst(relPairs, 1, j + 1, relSet)
    ELSE LET ab == relPairs[i]
             cd == relPairs[j]
         IN IF ab[2] = cd[1] /\ pairKey(ab[1], cd[2]) \notin relSet
            THEN <<ab, cd, <<ab[1], cd[2]>>>>
            ELSE TransitiveScan_InnerFirst(relPairs, i + 1, j, relSet)

\* the inner loop of the transitivity test for the pair of index i
RECURSIVE TransitiveInner(_, _, _, _)
TransitiveInner(relPairs, i, j, relSet) ==
    IF j > Len(relPairs) THEN <<>>
    ELSE LET ab == relPairs[i]
             cd == relPairs[j]
         IN IF ab[2] = cd[1] /\ pairKey(ab[1], cd[2]) \notin relSet
            THEN <<ab, cd, <<ab[1], cd[2]>>>>
            ELSE TransitiveInner(relPairs, i, j + 1, relSet)

\* transitive: <<>> when no violation, else <<ab, bc, acMissing>> for the
\* first (outer, inner) combination that fails
RECURSIVE TransitiveScan(_, _, _, _)
TransitiveScan(relPairs, i, j, relSet) ==
    IF i > Len(relPairs) THEN <<>>
    ELSE LET found == TransitiveInner(relPairs, i, j, relSet)
         IN IF found # <<>> THEN found
            ELSE TransitiveScan(relPairs, i + 1, 1, relSet)

relationProps(Useq, relPairs, relSet) ==
    LET rm == ReflexiveScan(Useq, 1, relSet)
        sw == SymmetricScan(relPairs, 1, relSet)
        aw == AntisymmetricScan(relPairs, 1, relSet)
        tw == TransitiveScan(relPairs, 1, 1, relSet)
    IN [reflexive |-> rm = <<>>, reflexiveMissing |-> rm,
        symmetric |-> sw = <<>>, symmetricWitness |-> sw,
        antisymmetric |-> aw = <<>>, antisymmetricWitness |-> aw,
        transitive |-> tw = <<>>, transitiveWitness |-> tw]

---------------------------------------------------------------------------
(* The Hasse tab: the user's input in one of the two boxes, and the two    *)
(* derivations, each applied to the parsed lists of the page.  A           *)
(* derivation repeated at once computes the same list from the same        *)
(* inputs and changes nothing, so the history follows alternating ones.    *)

InitOrder ==
    /\ U \in DistinctSeqs(Elems)
    /\ orig \in PairLists
    /\ \/ hasseCovers = orig /\ relationPairs = <<>> /\ ops = <<"editH">>
       \/ relationPairs = orig /\ hasseCovers = <<>> /\ ops = <<"editR">>

CallTransitiveClosureFromCovers ==
    /\ Len(ops) <= MaxOps
    /\ ops[Len(ops)] # "closure"
    /\ relationPairs' = transitiveClosureFromCovers(U, hasseCovers)
    /\ ops' = Append(ops, "closure")
    /\ UNCHANGED <<U, hasseCovers, orig>>

CallCoversFromRelation ==
    /\ Len(ops) <= MaxOps
    /\ ops[Len(ops)] # "covers"
    /\ hasseCovers' = coversFromRelation(U, relationPairs, relationSet(relationPairs))
    /\ ops' = Append(ops, "covers")
    /\ UNCHANGED <<U, relationPairs, orig>>

\* faulty variant: antisymmetry is left out
isPartialOrder_NoAntisymmetric(p) == p.reflexive /\ p.transitive

isPartialOrder(p) == p.reflexive /\ p.transitive /\ p.antisymmetric

isEquivalence(p) == p.reflexive /\ p.transitive /\ p.symmetric

\* the badge next to the heading of the classification
classificationBadge(po, eq) ==
    IF po /\ eq THEN "Orden parcial y equivalencia"
    ELSE IF po THEN "Orden parcial"
    ELSE IF eq THEN "Equivalencia"
    ELSE "Ninguna"

\* what one render derives from relationProps
Classify(p) ==
    [isPartialOrder |-> isPartialOrder(p),
     isEquivalence |-> isEquivalence(p),
     badge |-> classificationBadge(isPartialOrder(p), isEquivalence(p))]

\* The analyzer of the relations tab: the page renders relationProps from
\* U and R, and renders it again when the user edits the text of R; here
\* the user deletes a pair (x,x) from it.
\* longest pair list over two elements the analyzer is given
MaxLongPairs == 4

\* the longer pair lists, over the first two elements
LongPairLists ==
    LET E2 == {ElemOrder[1], ElemOrder[2]}
    IN UNION {[1..n -> E2 \X E2] : n \in 0..MaxLongPairs}

InitProps ==
    /\ U \in DistinctSeqs(Elems)
    /\ relationPairs \in PairLists \cup LongPairLists
    /\ hasseCovers = <<>> /\ orig = <<>> /\ ops = <<"analyzer">>
    /\ rProps = <<>>
    /\ classification = <<>>
    /\ removed = <<>>

RenderRelationProps ==
    /\ rProps = <<>>
    /\ rProps' = <<relationProps(U, relationPairs, relationSet(relationPairs))>>
    /\ classification' =
          <<Classify(relationProps(U, relationPairs, relationSet(relationPairs)))>>
    /\ UNCHANGED <<orderVars, removed>>

\* removed' keeps x and whether R was reported reflexive before the edit
DeleteDiagonalPair ==
    /\ rProps # <<>>
    /\ \E x \in Range(U) :
          LET Keep(p) == p # <<x, x>>
              R2 == SelectSeq(relationPairs, Keep)
          IN /\ <<x, x>> \in Range(relationPairs)
             /\ relationPairs' = R2
             /\ rProps' = <<relationProps(U, R2, relationSet(R2))>>
             /\ classification' = <<Classify(relationProps(U, R2, relationSet(R2)))>>
             /\ removed' = <<x, rProps[1].reflexive>>
    /\ UNCHANGED <<U, hasseCovers, orig, ops>>

IdleLayout ==
    /\ universe = <<>> /\ covers = <<>> /\ preds = <<>> /\ succs = <<>>
    /\ levelMap = <<>> /\ queue = <<>> /\ positions = <<>> /\ pc = "idle"

IdleMod == aVal = 0 /\ nVal = 1 /\ inv_a_n = <<>> /\ gcd_a_n = <<>> /\ mpc = "idle"

IdleArith == call = <<>> /\ ret = <<>>

IdleProps == rProps = <<>> /\ classification = <<>> /\ removed = <<>>

IdleLookup == lookup = <<>> /\ present = <<>>

IdleText == RText = <<>> /\ HText = <<>>

IdleExtra == IdleLookup /\ IdleText

IdleOrder ==
    /\ U = <<>> /\ relationPairs = <<>> /\ hasseCovers = <<>>
    /\ orig = <<>> /\ ops = <<"idle">>

Init == InitOrder /\ IdleLayout /\ IdleMod /\ IdleArith /\ IdleProps /\ IdleExtra

Next ==
    \/ CallTransitiveClosureFromCovers /\ UNCHANGED <<layoutVars, modVars, arithVars, propsVars, extraVars>>
    \/ CallCoversFromRelation /\ UNCHANGED <<layoutVars, modVars, arithVars, propsVars, extraVars>>

Spec == Init /\ [][Next]_vars

InitAnalyzer == InitProps /\ IdleLayout /\ IdleMod /\ IdleArith /\ IdleExtra

NextProps ==
    \/ RenderRelationProps /\ UNCHANGED <<layoutVars, modVars, arithVars, extraVars>>
    \/ DeleteDiagonalPair /\ UNCHANGED <<layoutVars, modVars, arithVars, extraVars>>

SpecProps == InitAnalyzer /\ [][NextProps]_vars

---------------------------------------------------------------------------
(* layoutHasse, one action per phase of the call.                          *)

width == 600
height == 380

EmptyMap == [x \in {} |-> 0]

\* Map.set
MapSet(m, k, v) == [x \in DOMAIN m \cup {k} |-> IF x = k THEN v ELSE m[x]]

\* Set.add on an insertion-ordered set
SetAdd(S, x) == IF Has(S, x) THEN S ELSE Append(S, x)

\* the loop over the covers that fills preds and succs; a pair with an
\* endpoint outside the universe is skipped
RECURSIVE AddEdges(_, _, _, _)
AddEdges(univ, cv, i, ps) ==
    IF i > Len(cv) THEN ps
    ELSE LET a == cv[i][1]
             b == cv[i][2]
         IN IF ~ Has(univ, a) \/ ~ Has(univ, b) THEN AddEdges(univ, cv, i + 1, ps)
            ELSE AddEdges(univ, cv, i + 1,
                          [preds |-> [ps.preds EXCEPT ![b] = SetAdd(@, a)],
                           succs |-> [ps.succs EXCEPT ![a] = SetAdd(@, b)]])

\* the elements without predecessor take level 0 and enter the queue
RECURSIVE SeedMinimal(_, _, _, _)
SeedMinimal(univ, pr, i, st) ==
    IF i > Len(univ) THEN st
    ELSE LET u == univ[i] IN
         IF Len(pr[u]) = 0
         THEN SeedMinimal(univ, pr, i + 1,
                          [levelMap |-> MapSet(st.levelMap, u, 0),
                           queue    |-> Append(st.queue, u)])
         ELSE SeedMinimal(univ, pr, i + 1, st)

\* when every element has a predecessor the first one is forced to level 0
SeedForced(univ, st) ==
    IF Len(st.queue) = 0 /\ Len(univ) > 0
    THEN [levelMap |-> MapSet(st.levelMap, univ[1], 0),
          queue    |-> Append(st.queue, univ[1])]
    ELSE st

\* faulty variant: a successor keeps the first level it was given
RECURSIVE RelaxSuccs_FirstLevelOnly(_, _, _, _)
RelaxSuccs_FirstLevelOnly(ws, i, lv, st) ==
    IF i > Len(ws) THEN st
    ELSE LET w == ws[i] IN
         IF w \notin DOMAIN st.levelMap
         THEN RelaxSuccs_FirstLevelOnly(ws, i + 1, lv,
                         [levelMap |-> MapSet(st.levelMap, w, lv + 1),
                          queue    |-> Append(st.queue, w)])
         ELSE RelaxSuccs_FirstLevelOnly(ws, i + 1, lv, st)

\* the for (const w of succs.get(v)) loop of one dequeued element
RECURSIVE RelaxSuccs(_, _, _, _)
RelaxSuccs(ws, i, lv, st) ==
    IF i > Len(ws) THEN st
    ELSE LET w         == ws[i]
             candidate == lv + 1
         IN IF w \notin DOMAIN st.levelMap \/ candidate > st.levelMap[w]
            THEN RelaxSuccs(ws, i + 1, lv,
                            [levelMap |-> MapSet(st.levelMap, w, candidate),
                             queue    |-> Append(st.queue, w)])
            ELSE RelaxSuccs(ws, i + 1, lv, st)

\* one iteration of while (queue.length): queue.shift(), then the loop
\* over the successors
RelaxHead(lm, q, sc) ==
    LET v  == Head(q)
        lv == IF v \in DOMAIN lm THEN lm[v] ELSE 0
    IN RelaxSuccs(sc[v], 1, lv, [levelMap |-> lm, queue |-> Tail(q)])

\* The loop never ends once some level reaches Len(universe).  A level k
\* of w is lv + 1 for the level lv = k - 1 of a predecessor, down to a
\* seed of level 0: a walk of k covers inside the universe.  With
\* k >= Len(universe) the walk passes twice through one element, so a
\* cycle lies among the elements that were dequeued.  Were the queue to
\* empty, every cover v -> w of a dequeued v would have
\* level(w) >= level(v) + 1 (the last dequeue of v sees its final level),
\* which no cycle satisfies.  Levels are unbounded numbers; the model
\* follows the loop up to here and records that it goes on for ever.
Unbounded(lm, univ) == \E x \in DOMAIN lm : lm[x] >= Len(univ)

\* the elements without level take level 0
RECURSIVE FillMissing(_, _, _)
FillMissing(univ, i, lm) ==
    IF i > Len(univ) THEN lm
    ELSE IF univ[i] \in DOMAIN lm THEN FillMissing(univ, i + 1, lm)
         ELSE FillMissing(univ, i + 1, MapSet(lm, univ[i], 0))

\* levels.get(lv): the elements of one level, in universe order
NodesOfLevel(univ, lm, lv) == SelectSeq(univ, LAMBDA u : lm[u] = lv)

\* sortedLevels: the levels in use, ascending
RECURSIVE SortedLevels(_)
SortedLevels(S) ==
    IF S = {} THEN <<>>
    ELSE LET m == CHOOSE x \in S : \A y \in S : x <= y
         IN <<m>> \o SortedLevels(S \ {m})

\* faulty variant: the vertical axis is not inverted
PositionsOfLevel_NotInverted(nodes, lvl, maxLevel, nLevels) ==
    [i \in 1..Len(nodes) |->
        [id |-> nodes[i],
         x  |-> [num |-> i * width, den |-> Len(nodes) + 1],
         y  |-> [num |-> (lvl + 1) * height, den |-> nLevels + 1]]]

\* the positions of one level; a coordinate is the fraction num / den, and
\* the i-th node here is the one the code numbers i - 1
PositionsOfLevel(nodes, lvl, maxLevel, nLevels) ==
    [i \in 1..Len(nodes) |->
        [id |-> nodes[i],
         x  |-> [num |-> i * width, den |-> Len(nodes) + 1],
         y  |-> [num |-> (maxLevel - lvl + 1) * height, den |-> nLevels + 1]]]

RECURSIVE PositionsFrom(_, _, _, _)
PositionsFrom(univ, lm, sorted, k) ==
    IF k > Len(sorted) THEN <<>>
    ELSE LET maxLevel == IF Len(sorted) > 0 THEN sorted[Len(sorted)] ELSE 0
         IN PositionsOfLevel(NodesOfLevel(univ, lm, sorted[k]), sorted[k],
                             maxLevel, Len(sorted))
            \o PositionsFrom(univ, lm, sorted, k + 1)

InitLayout ==
    /\ universe \in SortedSeqs
    /\ covers \in PairLists
    /\ preds = EmptyMap /\ succs = EmptyMap
    /\ levelMap = EmptyMap /\ queue = <<>> /\ positions = <<>>
    /\ pc = "start"

\* preds, succs, the seeds of the queue
LayoutSeed ==
    /\ pc = "start"
    /\ LET none == [u \in Range(universe) |-> <<>>]
           ps   == AddEdges(universe, covers, 1, [preds |-> none, succs |-> none])
           st   == SeedForced(universe,
                              SeedMinimal(universe, ps.preds, 1,
                                          [levelMap |-> EmptyMap, queue |-> <<>>]))
       IN /\ preds' = ps.preds
          /\ succs' = ps.succs
          /\ levelMap' = st.levelMap
          /\ queue' = st.queue
    /\ pc' = "relax"
    /\ UNCHANGED <<universe, covers, positions>>

\* one iteration of the relaxation loop
LayoutRelax ==
    /\ pc = "relax"
    /\ queue # <<>>
    /\ LET st == RelaxHead(levelMap, queue, succs)
       IN /\ ~ Unbounded(st.levelMap, universe)
          /\ levelMap' = st.levelMap
          /\ queue' = st.queue
    /\ UNCHANGED <<universe, covers, preds, succs, positions, pc>>

\* the iteration after which the loop cannot end any more: the queue is
\* not empty and will never be
LayoutDiverge ==
    /\ pc = "relax"
    /\ queue # <<>>
    /\ LET st == RelaxHead(levelMap, queue, succs)
       IN /\ Unbounded(st.levelMap, universe)
          /\ levelMap' = st.levelMap
          /\ queue' = st.queue
    /\ pc' = "diverged"
    /\ UNCHANGED <<universe, covers, preds, succs, positions>>

\* the queue is empty: default levels, grouping, coordinates, return
LayoutReturn ==
    /\ pc = "relax"
    /\ queue = <<>>
    /\ LET lm     == FillMissing(universe, 1, levelMap)
           sorted == SortedLevels({lm[u] : u \in Range(universe)})
       IN /\ levelMap' = lm
          /\ positions' = PositionsFrom(universe, lm, sorted, 1)
    /\ pc' = "done"
    /\ UNCHANGED <<universe, covers, preds, succs, queue>>

NextLayout ==
    \/ LayoutSeed /\ UNCHANGED <<orderVars, modVars, arithVars, propsVars, extraVars>>
    \/ LayoutRelax /\ UNCHANGED <<orderVars, modVars, arithVars, propsVars, extraVars>>
    \/ LayoutDiverge /\ UNCHANGED <<orderVars, modVars, arithVars, propsVars, extraVars>>
    \/ LayoutReturn /\ UNCHANGED <<orderVars, modVars, arithVars, propsVars, extraVars>>

\* the call is synchronous: a step that can be taken is taken
InitLayoutCall == InitLayout /\ IdleOrder /\ IdleMod /\ IdleArith /\ IdleProps /\ IdleExtra

SpecLayout ==
    /\ InitLayoutCall
    /\ [][NextLayout]_vars
    /\ WF_vars(NextLayout)

---------------------------------------------------------------------------
(* Modular algebra.  Numbers are JavaScript numbers holding small          *)
(* integers: % keeps the sign of the dividend, Math.trunc rounds to zero.  *)

Abs(x) == IF x < 0 THEN -x ELSE x

\* a % m of JavaScript, m # 0
JsRem(a, m) == IF a < 0 THEN -((-a) % Abs(m)) ELSE a % Abs(m)

\* Math.trunc(a / b), b # 0
JsTruncDiv(a, b) ==
    IF (a < 0) = (b < 0) THEN Abs(a) \div Abs(b) ELSE -(Abs(a) \div Abs(b))

\* faulty variant: the remainder keeps the sign of a
modNorm_KeepsSign(a, m) == IF m = 0 THEN a ELSE JsRem(a, m)

modNorm(a, m) ==
    IF m = 0 THEN a
    ELSE LET r == JsRem(a, m) IN IF r < 0 THEN r + Abs(m) ELSE r

\* the while (b !== 0) loop of egcd and its return
RECURSIVE egcdLoop(_, _, _, _, _, _)
egcdLoop(a, b, x0, y0, x1, y1) ==
    IF b = 0 THEN [g |-> Abs(a), x |-> x0, y |-> y0]
    ELSE LET q == JsTruncDiv(a, b)
         IN egcdLoop(b, a - q * b, x1, y1, x0 - q * x1, y0 - q * y1)

egcd(a, b) == egcdLoop(a, b, 1, 0, 0, 1)

\* the value null
null == <<>>

\* faulty variant: the coefficient is returned whatever the gcd is
modInv_NeverNull(a, m) == <<modNorm(egcd(a, m).x, m)>>

\* null, or <<r>> for the number r
modInv(a, m) ==
    LET e == egcd(a, m)
    IN IF e.g # 1 THEN null ELSE <<modNorm(e.x, m)>>

\* 2^30: the bitwise operators work on the 32-bit two's complement of
\* their operand, whose sign bit is worth 2 * TwoTo30
TwoTo30 == 1073741824

\* An exponent is a number below 2^32, held as <<h, bit>> for 2 * h + bit.
Num(k) == <<k \div 2, k % 2>>

\* e & 1
LowBit(e) == e[2]

\* e >> 1: the operand wraps to a signed 32-bit integer which is then
\* halved; the result is an ordinary small number
ShiftRight1(e) == IF e[1] < TwoTo30 THEN e[1] ELSE (e[1] - TwoTo30) - TwoTo30

\* the while (e > 0) loop of powMod from its second test on
RECURSIVE powModLoop(_, _, _, _)
powModLoop(res, b, e, m) ==
    IF e > 0
    THEN powModLoop(IF e % 2 = 1 THEN modNorm(res * b, m) ELSE res,
                    modNorm(b * b, m), e \div 2, m)
    ELSE res

powMod(base, exp, m) ==
    LET b == modNorm(base, m)
        res == JsRem(1, IF m = 0 THEN 1 ELSE m)
    IN IF exp[1] > 0 \/ exp[2] > 0
       THEN powModLoop(IF LowBit(exp) = 1 THEN modNorm(res * b, m) ELSE res,
                       modNorm(b * b, m), ShiftRight1(exp), m)
       ELSE res

\* faulty variant: b is not tested against the gcd
solveLinearCongruence_NoDivisibilityTest(a, b, m) ==
    LET g == egcd(Abs(a), Abs(m)).g
        a1 == JsTruncDiv(a, g)
        b1 == JsTruncDiv(b, g)
        m1 == JsTruncDiv(m, g)
        inv == modInv(modNorm(a1, m1), Abs(m1))
    IN IF inv = null THEN [hasSolution |-> FALSE]
       ELSE [hasSolution |-> TRUE, x0 |-> modNorm(inv[1] * b1, Abs(m1)),
             mod |-> Abs(m1)]

\* faulty variant: the modulus reported is m, not m / g
solveLinearCongruence_FullModulus(a, b, m) ==
    LET g == egcd(Abs(a), Abs(m)).g
        a1 == JsTruncDiv(a, g)
        b1 == JsTruncDiv(b, g)
        m1 == JsTruncDiv(m, g)
        inv == modInv(modNorm(a1, m1), Abs(m1))
    IN IF JsRem(b, g) # 0 THEN [hasSolution |-> FALSE]
       ELSE IF inv = null THEN [hasSolution |-> FALSE]
       ELSE [hasSolution |-> TRUE, x0 |-> modNorm(inv[1] * b1, Abs(m1)),
             mod |-> Abs(m)]

\* a / g, b / g and m / g are exact once g divides b
solveLinearCongruence(a, b, m) ==
    LET g == egcd(Abs(a), Abs(m)).g
        a1 == JsTruncDiv(a, g)
        b1 == JsTruncDiv(b, g)
        m1 == JsTruncDiv(m, g)
        inv == modInv(modNorm(a1, m1), Abs(m1))
    IN IF JsRem(b, g) # 0 THEN [hasSolution |-> FALSE]
       ELSE IF inv = null THEN [hasSolution |-> FALSE]
       ELSE [hasSolution |-> TRUE, x0 |-> modNorm(inv[1] * b1, Abs(m1)),
             mod |-> Abs(m1)]

\* faulty variant: the entries are sums for both operations
buildModTable_SumsOnly(n, op) ==
    [i \in 1..n |-> [j \in 1..n |-> modNorm((i - 1) + (j - 1), n)]]

\* row i + 1 of the result is the row A[i] of the code, and so the columns
buildModTable(n, op) ==
    [i \in 1..n |->
        [j \in 1..n |->
            IF op = "add" THEN modNorm((i - 1) + (j - 1), n)
            ELSE modNorm((i - 1) * (j - 1), n)]]

\* largest |a| the user enters
MaxA == 12
\* largest modulus n the user enters
MaxN == 12

\* the fields of the modular tab; nVal is Math.max(1, toInt(M_n))
InitMod ==
    /\ aVal \in -MaxA..MaxA
    /\ nVal \in 1..MaxN
    /\ inv_a_n = null
    /\ gcd_a_n = null
    /\ mpc = "input"

\* the derived values of the modular tab are computed from the fields
ComputeModular ==
    /\ mpc = "input"
    /\ inv_a_n' = modInv(aVal, nVal)
    /\ gcd_a_n' = <<egcd(Abs(aVal), nVal).g>>
    /\ mpc' = "computed"
    /\ UNCHANGED <<aVal, nVal>>

\* the user enters other numbers
EditModular ==
    /\ mpc = "computed"
    /\ aVal' \in -MaxA..MaxA
    /\ nVal' \in 1..MaxN
    /\ inv_a_n' = null
    /\ gcd_a_n' = null
    /\ mpc' = "input"

InitModularTab == InitMod /\ IdleOrder /\ IdleLayout /\ IdleArith /\ IdleProps /\ IdleExtra

NextMod ==
    \/ ComputeModular /\ UNCHANGED <<orderVars, layoutVars, arithVars, propsVars, extraVars>>
    \/ EditModular /\ UNCHANGED <<orderVars, layoutVars, arithVars, propsVars, extraVars>>

SpecMod == InitModularTab /\ [][NextMod]_vars

---------------------------------------------------------------------------
(* The exported functions of modular.tsx, each called once on arguments    *)
(* of its whole domain.                                                    *)

\* largest exponent tried one by one
MaxK == 6

\* the exponents: the small ones, then 2^31 and 2^31 + 1
Exps == {Num(k) : k \in 0..MaxK} \cup {<<TwoTo30, 0>>, <<TwoTo30, 1>>}

InitArith ==
    /\ ret = <<>>
    /\ \/ call \in {[fn |-> "modNorm", args |-> <<a, m>>] :
                        a \in -MaxA..MaxA, m \in -MaxN..MaxN}
       \/ call \in {[fn |-> "egcd", args |-> <<a, b>>] :
                        a \in -MaxA..MaxA, b \in -MaxA..MaxA}
       \/ call \in {[fn |-> "powMod", args |-> <<base, exp, m>>] :
                        base \in -MaxA..MaxA, exp \in Exps, m \in 1..MaxN}
       \/ call \in {[fn |-> "solveLinearCongruence", args |-> <<a, b, m>>] :
                        a \in -MaxA..MaxA, b \in -MaxA..MaxA, m \in 1..MaxN}
       \/ call \in {[fn |-> "buildModTable", args |-> <<n, op>>] :
                        n \in 1..MaxN, op \in {"add", "mul"}}

CallModNorm ==
    /\ ret = <<>> /\ call.fn = "modNorm"
    /\ ret' = <<modNorm(call.args[1], call.args[2])>>
    /\ UNCHANGED call

CallEgcd ==
    /\ ret = <<>> /\ call.fn = "egcd"
    /\ ret' = <<egcd(call.args[1], call.args[2])>>
    /\ UNCHANGED call

CallPowMod ==
    /\ ret = <<>> /\ call.fn = "powMod"
    /\ ret' = <<powMod(call.args[1], call.args[2], call.args[3])>>
    /\ UNCHANGED call

CallSolveLinearCongruence ==
    /\ ret = <<>> /\ call.fn = "solveLinearCongruence"
    /\ ret' = <<solveLinearCongruence(call.args[1], call.args[2], call.args[3])>>
    /\ UNCHANGED call

CallBuildModTable ==
    /\ ret = <<>> /\ call.fn = "buildModTable"
    /\ ret' = <<buildModTable(call.args[1], call.args[2])>>
    /\ UNCHANGED call

InitArithCall == InitArith /\ IdleOrder /\ IdleLayout /\ IdleMod /\ IdleProps /\ IdleExtra

NextArith ==
    \/ CallModNorm /\ UNCHANGED <<orderVars, layoutVars, modVars, propsVars, extraVars>>
    \/ CallEgcd /\ UNCHANGED <<orderVars, layoutVars, modVars, propsVars, extraVars>>
    \/ CallPowMod /\ UNCHANGED <<orderVars, layoutVars, modVars, propsVars, extraVars>>
    \/ CallSolveLinearCongruence /\ UNCHANGED <<orderVars, layoutVars, modVars, propsVars, extraVars>>
    \/ CallBuildModTable /\ UNCHANGED <<orderVars, layoutVars, modVars, propsVars, extraVars>>

SpecArith == InitArithCall /\ [][NextArith]_vars

---------------------------------------------------------------------------
(* Reference notions the statements below are measured against.            *)

USet == Range(U)

OverU(pairs) == \A p \in Range(pairs) : p[1] \in USet /\ p[2] \in USet

\* transitive closure of a set of pairs
RECURSIVE TC(_)
TC(E) ==
    LET E2 == E \cup {<<r[1][1], r[2][2]>> : r \in {r \in E \X E : r[1][2] = r[2][1]}}
    IN IF E2 = E THEN E ELSE TC(E2)

\* smallest reflexive (on S) and transitive relation containing E
RTClosure(S, E) == TC(E \cup {<<x, x>> : x \in S})

Acyclic(E) == \A p \in TC(E) : p[1] # p[2]

\* no edge (a,b) with another path a -> c -> ... -> b of length >= 2
Irredundant(E) ==
    LET T == TC(E)
    IN \A e \in E : ~ \E f \in E : f[1] = e[1] /\ <<f[2], e[2]>> \in T

LastOp == ops[Len(ops)]

---------------------------------------------------------------------------
(* The closure engine.                                                     *)

\* C3: when every pair of H has both endpoints in U, the pairs returned by
\* transitiveClosureFromCovers(U, H) are, as a set, exactly the smallest
\* relation that contains H and (x,x) for every x of U and is transitive.
C3_ClosureIsReflexiveTransitiveClosure ==
    (LastOp = "closure" /\ OverU(hasseCovers)) =>
        Range(relationPairs) = RTClosure(USet, Range(hasseCovers))

\* the scenario of the specification: U = {1,2,3}, H = {(1,2),(2,3)}
C3_Witness ==
    /\ ops = <<"editH", "closure">>
    /\ U = <<"1", "2", "3">>
    /\ hasseCovers = <<<<"1", "2">>, <<"2", "3">>>>
    /\ Range(relationPairs) = {<<"1", "1">>, <<"2", "2">>, <<"3", "3">>,
                               <<"1", "2">>, <<"2", "3">>, <<"1", "3">>}

\* C4: every pair returned by transitiveClosureFromCovers(U, H) has both
\* elements in U, and the result is the closure of H restricted to U x U.
C4_ClosureDropsPairsOutsideU ==
    LastOp = "closure" =>
        /\ OverU(relationPairs)
        /\ Range(relationPairs) =
               RTClosure(USet, Range(hasseCovers) \cap (USet \X USet))

\* C5: for every H whatsoever the relation returned by
\* transitiveClosureFromCovers(U, H) is judged reflexive and transitive by
\* the property analyzer.
C5_ClosureIsPreorder ==
    LastOp = "closure" =>
        LET props == relationProps(U, relationPairs, relationSet(relationPairs))
        IN props.reflexive /\ props.transitive

\* a closure of covers with a cycle, a pair that leaves U and a result that
\* holds a derived pair
C5_Witness ==
    /\ LastOp = "closure"
    /\ ~ Acyclic(Range(hasseCovers))
    /\ ~ OverU(hasseCovers)
    /\ Range(relationPairs) \ (Range(hasseCovers) \cup {<<x, x>> : x \in USet}) # {}

\* C6: coversFromRelation returns, as a set, exactly the pairs (a,b) of R
\* with a # b, a and b in U, for which no c of U other than a and b has
\* both (a,c) and (c,b) in R.
C6_CoversAreThePairsWithoutIntermediate ==
    LastOp = "covers" =>
        Range(hasseCovers) =
            {p \in Range(relationPairs) :
                /\ p[1] # p[2]
                /\ p[1] \in USet /\ p[2] \in USet
                /\ ~ \E c \in USet \ {p[1], p[2]} :
                       /\ <<p[1], c>> \in Range(relationPairs)
                       /\ <<c, p[2]>> \in Range(relationPairs)}

\* the scenario of the specification: U = {1,2,3}, R the chain 1 <= 2 <= 3
C6_Witness ==
    /\ LastOp = "covers"
    /\ USet = {"1", "2", "3"}
    /\ Range(relationPairs) = {<<"1", "1">>, <<"1", "2">>, <<"2", "2">>,
                               <<"1", "3">>, <<"2", "3">>, <<"3", "3">>}
    /\ Range(hasseCovers) = {<<"1", "2">>, <<"2", "3">>}

\* C7: for H over U acyclic and irredundant, coversFromRelation applied to
\* transitiveClosureFromCovers(U, H) returns exactly H as a set of pairs.
C7_RoundTripOnValidCovers ==
    (/\ ops = <<"editH", "closure", "covers">>
     /\ OverU(orig)
     /\ Acyclic(Range(orig))
     /\ Irredundant(Range(orig))) =>
        Range(hasseCovers) = Range(orig)

\* a round trip over a chain of two covers, whose closure holds a derived pair
C7_Witness ==
    /\ ops = <<"editH", "closure", "covers">>
    /\ OverU(orig) /\ Acyclic(Range(orig)) /\ Irredundant(Range(orig))
    /\ Cardinality(Range(orig)) >= 2
    /\ Range(relationPairs) \ (Range(orig) \cup {<<x, x>> : x \in USet}) # {}

\* C8 as stated: whenever H over U contains a redundant edge or a cycle
\* (a 2-cycle and a self-loop included), coversFromRelation of the closure
\* differs from H as a set of pairs.
C8_RoundTripDiffersOnAnyInvalidCover ==
    (/\ ops = <<"editH", "closure", "covers">>
     /\ OverU(orig)
     /\ ~ (Acyclic(Range(orig)) /\ Irredundant(Range(orig)))) =>
        Range(hasseCovers) # Range(orig)

\* an edge (a,b) of E that a third element c of S lies between: c is
\* reachable from a and b from c
HasIntermediate(S, E) ==
    LET T == TC(E)
    IN \E e \in E : \E c \in S \ {e[1], e[2]} :
           <<e[1], c>> \in T /\ <<c, e[2]>> \in T

HasSelfLoop(E) == \E e \in E : e[1] = e[2]

\* C8 as amended: the round trip differs from H whenever H over U contains
\* a self-loop or an edge (a,b) with a third element of U between a and b
\* (every redundant edge of an acyclic H, every cycle through three or more
\* elements); a cycle through two elements alone need not make it differ.
C8_RoundTripDiffersOnLoopOrIntermediate ==
    (/\ ops = <<"editH", "closure", "covers">>
     /\ OverU(orig)
     /\ (HasSelfLoop(Range(orig)) \/ HasIntermediate(USet, Range(orig)))) =>
        Range(hasseCovers) # Range(orig)

\* a round trip over an acyclic H with a redundant edge
C8_Witness ==
    /\ ops = <<"editH", "closure", "covers">>
    /\ OverU(orig)
    /\ Acyclic(Range(orig)) /\ ~ Irredundant(Range(orig))
    /\ Range(hasseCovers) # Range(orig)

IsPartialOrder(S, E) ==
    /\ \A x \in S : <<x, x>> \in E
    /\ \A p \in E : p[1] # p[2] => <<p[2], p[1]>> \notin E
    /\ TC(E) = E

\* C9: for X over U a partial order or an irredundant acyclic cover, the
\* closure of coversFromRelation(U, X) equals the closure of X as a set of
\* pairs, and for a partial order it is X itself.  X is the content of the
\* relation box when the covers were derived: the list the user entered,
\* or the closure derived from the covers the user entered.
C9_ReduceThenClosurePreservesOrder ==
    /\ (/\ ops = <<"editR", "covers", "closure">>
        /\ OverU(orig)
        /\ \/ IsPartialOrder(USet, Range(orig))
           \/ Acyclic(Range(orig)) /\ Irredundant(Range(orig))) =>
           /\ Range(relationPairs) = Range(transitiveClosureFromCovers(U, orig))
           /\ IsPartialOrder(USet, Range(orig)) => Range(relationPairs) = Range(orig)
    /\ (/\ ops = <<"editH", "closure", "covers", "closure">>
        /\ OverU(orig)
        /\ IsPartialOrder(USet, RTClosure(USet, Range(orig)))) =>
           Range(relationPairs) = RTClosure(USet, Range(orig))

\* a partial order with a pair that is no cover, reduced and closed again
C9_Witness ==
    /\ ops = <<"editH", "closure", "covers", "closure">>
    /\ OverU(orig)
    /\ IsPartialOrder(USet, Range(relationPairs))
    /\ Range(relationPairs) \ (Range(hasseCovers) \cup {<<x, x>> : x \in USet}) # {}

---------------------------------------------------------------------------
(* The Hasse layout.                                                       *)

\* the covers with both endpoints in the universe of the layout
LayoutEdges == {e \in Range(covers) : e[1] \in Range(universe) /\ e[2] \in Range(universe)}

\* C1: layoutHasse terminates and returns a position for every universe
\* element, for every universe and every covering list, cycles and
\* self-loops included.
C1_LayoutTerminates ==
    <>(pc = "done" /\ {positions[i].id : i \in 1..Len(positions)} = Range(universe))

\* C2: for acyclic covers, when layoutHasse has finished every edge (a,b)
\* with a and b in the universe has level(b) > level(a), and the elements
\* without predecessor have level 0.
C2_EdgesPointUpward ==
    (pc = "done" /\ Acyclic(LayoutEdges)) =>
        /\ \A e \in LayoutEdges : levelMap[e[2]] > levelMap[e[1]]
        /\ \A u \in Range(universe) :
               (~ \E e \in LayoutEdges : e[2] = u) => levelMap[u] = 0

\* a finished layout of acyclic covers in which one edge spans two levels
\* (its target was first given a lower level and raised later)
C2_Witness ==
    /\ pc = "done"
    /\ Acyclic(LayoutEdges)
    /\ \E e \in LayoutEdges : levelMap[e[2]] >= levelMap[e[1]] + 2

---------------------------------------------------------------------------
(* Modular algebra.                                                        *)

\* C10: for every n >= 1 and every integer a, negative included, a
\* non-null modInv(a, n) is a value r of [0, n) with modNorm(a * r, n) = 1.
\* Stated for n >= 2: modulo 1 the residue of 1 is 0 and modNorm(a * r, 1)
\* is 0 for every a and r.
C10_ModInvIsInverse ==
    (mpc = "computed" /\ nVal >= 2 /\ inv_a_n # null) =>
        /\ inv_a_n[1] \in 0..(nVal - 1)
        /\ modNorm(aVal * inv_a_n[1], nVal) = 1

---------------------------------------------------------------------------
(* Reference notions of arithmetic.                                        *)

Divides(d, x) == x % d = 0

\* the greatest common divisor of x >= 0 and y >= 0, gcd(0, 0) = 0
GcdRef(x, y) ==
    IF x = 0 /\ y = 0 THEN 0
    ELSE CHOOSE d \in 1..(x + y) :
            /\ Divides(d, x) /\ Divides(d, y)
            /\ \A e \in 1..(x + y) : Divides(e, x) /\ Divides(e, y) => e <= d

Returned(f) == call # <<>> /\ call.fn = f /\ ret # <<>>

---------------------------------------------------------------------------
(* Extended Euclid.                                                        *)

\* C11: for all integers a and b, egcd(a, b) returns g >= 0 with
\* g = gcd(|a|, |b|) and a * x + b * y = g
C11_EgcdBezout ==
    Returned("egcd") =>
        LET a == call.args[1]
            b == call.args[2]
            r == ret[1]
        IN /\ r.g >= 0
           /\ r.g = GcdRef(Abs(a), Abs(b))
           /\ a * r.x + b * r.y = r.g

---------------------------------------------------------------------------
(* Modular inverse.                                                        *)

\* C12: for every integer a and n >= 1, modInv(a, n) is null exactly when
\* egcd(|a|, n).g is not 1; otherwise it is a number (a normal result)
C12_ModInvNullIffNotCoprime ==
    mpc = "computed" =>
        /\ (inv_a_n = null) <=> (gcd_a_n[1] # 1)
        /\ inv_a_n # null => Len(inv_a_n) = 1 /\ inv_a_n[1] \in Int

\* a negative a without an inverse, and one with an inverse
C12_Witness ==
    /\ mpc = "computed" /\ aVal < 0 /\ nVal > 1
    /\ inv_a_n = null /\ gcd_a_n[1] > 1

---------------------------------------------------------------------------
(* Linear congruences a * x = b (mod n).                                   *)

\* C13: for all integers a, b and n >= 1, solveLinearCongruence(a, b, n)
\* answers hasSolution = false exactly when gcd(|a|, |n|) does not divide
\* b; the reduced coefficient always has an inverse
C13_NoSolutionIffGcdDoesNotDivide ==
    Returned("solveLinearCongruence") =>
        LET a == call.args[1]
            b == call.args[2]
            n == call.args[3]
            g == GcdRef(Abs(a), Abs(n))
        IN /\ (ret[1].hasSolution = FALSE) <=> ~ Divides(g, b)
           /\ modInv(modNorm(a \div g, n \div g), n \div g) # null

\* solveLinearCongruence(4, 6, 8) has returned, without a solution
C13_Witness ==
    /\ Returned("solveLinearCongruence")
    /\ call.args = <<4, 6, 8>>
    /\ ret[1].hasSolution = FALSE

\* the integers x the solution set is compared on: -MaxX..MaxX
MaxX == 15

\* C14: when solveLinearCongruence(a, b, n) reports a solution, mod is
\* n / gcd(|a|, n), 0 <= x0 < mod, and an integer x solves
\* a * x = b (mod n) exactly when x is congruent to x0 modulo mod
C14_SolutionSet ==
    Returned("solveLinearCongruence") /\ ret[1].hasSolution =>
        LET a == call.args[1]
            b == call.args[2]
            n == call.args[3]
            r == ret[1]
        IN /\ r.mod = n \div GcdRef(Abs(a), n)
           /\ 0 <= r.x0 /\ r.x0 < r.mod
           /\ \A x \in -MaxX..MaxX :
                 (modNorm(a * x - b, n) = 0) <=> Divides(r.mod, x - r.x0)
           /\ \A x \in -MaxX..MaxX :
                 Divides(n, a * x - b) <=> Divides(r.mod, x - r.x0)

\* a solved congruence with negative a and b and more than one solution
\* modulo n
C14_Witness ==
    /\ Returned("solveLinearCongruence") /\ ret[1].hasSolution
    /\ call.args[1] < 0 /\ call.args[2] < 0
    /\ 1 < ret[1].mod /\ ret[1].mod < call.args[3]
    /\ ret[1].x0 > 0

---------------------------------------------------------------------------
(* Normalisation and modular power.                                        *)

\* C15: for every integer a and every n # 0, modNorm(a, n) is r with
\* 0 <= r < |n| and r congruent to a modulo |n|
C15_ModNormInRange ==
    Returned("modNorm") /\ call.args[2] # 0 =>
        LET a == call.args[1]
            n == call.args[2]
            r == ret[1]
        IN /\ 0 <= r /\ r < Abs(n)
           /\ Divides(Abs(n), r - a)

\* a negative a under a negative modulus, where % alone is negative
C15_Witness ==
    /\ Returned("modNorm")
    /\ call.args[1] < 0 /\ call.args[2] < -1
    /\ JsRem(call.args[1], call.args[2]) < 0
    /\ ret[1] > 0

\* a^k modulo n for k >= 0 and n >= 1, by a^k = (a^(k div 2))^2 * a^(k mod 2)
RECURSIVE PowRef(_, _, _)
PowRef(a, k, n) ==
    IF k = 0 THEN 1 % n
    ELSE LET h == PowRef(a, k \div 2, n)
         IN (h * h * (IF k % 2 = 1 THEN a ELSE 1)) % n

\* a^(2 * h + bit) modulo n
PowRefOfNum(a, e, n) ==
    LET q == PowRef(a, e[1], n)
    IN (q * q * (IF e[2] = 1 THEN a ELSE 1)) % n

\* a^k modulo n by k multiplications
RECURSIVE PowByProducts(_, _, _)
PowByProducts(a, k, n) ==
    IF k = 0 THEN 1 % n ELSE (PowByProducts(a, k - 1, n) * a) % n

\* C16: for every integer base, every exponent exp >= 0 and every n >= 1,
\* powMod(base, exp, n) is base^exp mod n, in [0, n); powMod(a, 0, n) is
\* 1 when n # 1 and 0 when n = 1
C16_PowModIsPower ==
    Returned("powMod") =>
        LET base == call.args[1]
            exp == call.args[2]
            n == call.args[3]
            r == ret[1]
        IN /\ 0 <= r /\ r < n
           /\ r = PowRefOfNum(base, exp, n)
           /\ exp = Num(0) => r = (IF n = 1 THEN 0 ELSE 1)

---------------------------------------------------------------------------
(* The property analyzer.                                                  *)

\* (a,b) is a pair of the list R
InR(a, b) == <<a, b>> \in Range(relationPairs)

\* C17: reflexive is reported exactly when every x of U has (x,x) in R;
\* otherwise reflexiveMissing is the first x of U, in iteration order,
\* without (x,x); after (x,x) is deleted from an R reported reflexive, the
\* report is not reflexive, with reflexiveMissing = x
C17_ReflexiveCheck ==
    rProps # <<>> =>
        LET p == rProps[1]
        IN /\ p.reflexive <=> \A x \in USet : InR(x, x)
           /\ p.reflexive => p.reflexiveMissing = null
           /\ ~ p.reflexive =>
                 \E i \in 1..Len(U) :
                    /\ p.reflexiveMissing = <<U[i]>>
                    /\ ~ InR(U[i], U[i])
                    /\ \A j \in 1..(i - 1) : InR(U[j], U[j])
           /\ removed # <<>> /\ removed[2] =>
                 ~ p.reflexive /\ p.reflexiveMissing = <<removed[1]>>

\* a reflexive R over three elements lost the diagonal pair of an element
\* that is not the first of U
C17_Witness ==
    /\ rProps # <<>> /\ removed # <<>> /\ removed[2]
    /\ Len(U) = 3 /\ removed[1] # U[1]
    /\ rProps[1].reflexiveMissing = <<removed[1]>>

\* the combination (R[i], R[j]) breaks transitivity
Breaks(i, j) ==
    /\ relationPairs[i][2] = relationPairs[j][1]
    /\ ~ InR(relationPairs[i][1], relationPairs[j][2])

\* C18: transitive is reported exactly when (a,b), (b,c) in R imply (a,c)
\* in R; otherwise the witness is ab, bc in R with ab's second element
\* equal to bc's first, acMissing = (a,c) not in R, for the first such
\* combination in (outer pair, inner pair) order
C18_TransitiveCheck ==
    rProps # <<>> =>
        LET p == rProps[1]
            n == Len(relationPairs)
        IN /\ p.transitive <=>
                 \A ab \in Range(relationPairs), bc \in Range(relationPairs) :
                    ab[2] = bc[1] => InR(ab[1], bc[2])
           /\ p.transitive => p.transitiveWitness = null
           /\ ~ p.transitive =>
                 \E i \in 1..n, j \in 1..n :
                    /\ p.transitiveWitness =
                          <<relationPairs[i], relationPairs[j],
                            <<relationPairs[i][1], relationPairs[j][2]>>>>
                    /\ Breaks(i, j)
                    /\ \A k \in 1..n, l \in 1..n :
                          (k < i \/ (k = i /\ l < j)) => ~ Breaks(k, l)

\* a witness that is not the first combination tried, while a later
\* combination breaks transitivity too
C18_Witness ==
    /\ rProps # <<>> /\ ~ rProps[1].transitive
    /\ rProps[1].transitiveWitness[1] # relationPairs[1]
    /\ \E k \in 1..Len(relationPairs), l \in 1..Len(relationPairs) :
          /\ Breaks(k, l)
          /\ <<relationPairs[k], relationPairs[l]>> #
                <<rProps[1].transitiveWitness[1], rProps[1].transitiveWitness[2]>>

\* C19: symmetric is reported exactly when every (a,b) in R has (b,a) in
\* R; otherwise symmetricWitness is the first pair (a,b) of R without
\* (b,a), and it is never a pair (a,a)
C19_SymmetricCheck ==
    rProps # <<>> =>
        LET p == rProps[1]
        IN /\ p.symmetric <=> \A ab \in Range(relationPairs) : InR(ab[2], ab[1])
           /\ p.symmetric => p.symmetricWitness = null
           /\ ~ p.symmetric =>
                 \E i \in 1..Len(relationPairs) :
                    /\ p.symmetricWitness = relationPairs[i]
                    /\ ~ InR(relationPairs[i][2], relationPairs[i][1])
                    /\ \A j \in 1..(i - 1) : InR(relationPairs[j][2], relationPairs[j][1])
                    /\ relationPairs[i][1] # relationPairs[i][2]

\* the witness comes after a pair (a,a) and a pair that has its converse
C19_Witness ==
    /\ rProps # <<>> /\ ~ rProps[1].symmetric
    /\ Len(relationPairs) >= 3
    /\ relationPairs[1][1] = relationPairs[1][2]
    /\ rProps[1].symmetricWitness = relationPairs[3]
    /\ rProps[1].symmetricWitness # relationPairs[2]

\* C20: antisymmetric is reported exactly when no (a,b) in R with a # b
\* has (b,a) in R; otherwise antisymmetricWitness is the first pair (a,b)
\* of R with a # b and (b,a) in R
C20_AntisymmetricCheck ==
    rProps # <<>> =>
        LET p == rProps[1]
            Bad(i) == /\ relationPairs[i][1] # relationPairs[i][2]
                      /\ InR(relationPairs[i][2], relationPairs[i][1])
        IN /\ p.antisymmetric <=>
                 \A ab \in Range(relationPairs) : ab[1] # ab[2] => ~ InR(ab[2], ab[1])
           /\ p.antisymmetric => p.antisymmetricWitness = null
           /\ ~ p.antisymmetric =>
                 \E i \in 1..Len(relationPairs) :
                    /\ p.antisymmetricWitness = relationPairs[i]
                    /\ Bad(i)
                    /\ \A j \in 1..(i - 1) : ~ Bad(j)

\* the witness comes after a pair (a,a), which has its converse
C20_Witness ==
    /\ rProps # <<>> /\ ~ rProps[1].antisymmetric
    /\ Len(relationPairs) >= 3
    /\ relationPairs[1][1] = relationPairs[1][2]
    /\ rProps[1].antisymmetricWitness = relationPairs[2]

---------------------------------------------------------------------------
(* Membership lookups by key.  parseRelation keeps any non-empty token     *)
(* without ',' and ')' as an element, so a token may begin or end with     *)
(* '|'.                                                                    *)

\* tokens of parsed pairs
KeyElems == {"1", "1|", "|1"}

\* longest pair list looked into
MaxKeyPairs == 2

KeyPairLists == UNION {[1..n -> KeyElems \X KeyElems] : n \in 0..MaxKeyPairs}

InitLookup ==
    /\ relationPairs \in KeyPairLists
    /\ lookup \in KeyElems \X KeyElems
    /\ present = <<>>
    /\ U = <<>> /\ hasseCovers = <<>> /\ orig = <<>> /\ ops = <<"lookup">>

\* relationSet.has(pairKey(a, b))
RelationSetHas ==
    /\ present = <<>>
    /\ present' = <<pairKey(lookup[1], lookup[2]) \in relationSet(relationPairs)>>
    /\ UNCHANGED <<orderVars, lookup>>

InitLookupCall ==
    InitLookup /\ IdleLayout /\ IdleMod /\ IdleArith /\ IdleProps /\ IdleText

NextLookup ==
    RelationSetHas /\ UNCHANGED <<layoutVars, modVars, arithVars, propsVars, textVars>>

SpecLookup == InitLookupCall /\ [][NextLookup]_vars

\* C21: pairKey(a, b) = pairKey(c, d) only if a = c and b = d, for
\* elements that may contain '|'; so relationSet reports (a,b) present
\* exactly when the pair (a,b) is in the pair list
C21_LookupUnambiguous ==
    present # <<>> =>
        /\ \A p \in Range(relationPairs) :
              pairKey(p[1], p[2]) = pairKey(lookup[1], lookup[2]) => p = lookup
        /\ present[1] <=> lookup \in Range(relationPairs)

---------------------------------------------------------------------------
(* Classification.                                                         *)

\* C22: isPartialOrder is reflexive and antisymmetric and transitive,
\* isEquivalence is reflexive and symmetric and transitive, of the four
\* results reported; the badge names both, the partial order alone, the
\* equivalence alone, or none; the identity relation on U is both
C22_ClassificationIsComposition ==
    rProps # <<>> =>
        LET p == rProps[1]
            c == classification[1]
        IN /\ c.isPartialOrder <=> (p.reflexive /\ p.antisymmetric /\ p.transitive)
           /\ c.isEquivalence <=> (p.reflexive /\ p.symmetric /\ p.transitive)
           /\ c.badge = "Orden parcial y equivalencia" <=>
                 (c.isPartialOrder /\ c.isEquivalence)
           /\ c.badge = "Orden parcial" <=> (c.isPartialOrder /\ ~ c.isEquivalence)
           /\ c.badge = "Equivalencia" <=> (c.isEquivalence /\ ~ c.isPartialOrder)
           /\ c.badge = "Ninguna" <=> (~ c.isPartialOrder /\ ~ c.isEquivalence)
           /\ Range(relationPairs) = {<<x, x>> : x \in USet} =>
                 c.badge = "Orden parcial y equivalencia"

\* a symmetric preorder on two elements that is not antisymmetric: an
\* equivalence alone
C22_Witness ==
    /\ rProps # <<>>
    /\ classification[1].badge = "Equivalencia"
    /\ rProps[1].reflexive /\ ~ rProps[1].antisymmetric
    /\ Len(U) = 2

---------------------------------------------------------------------------
(* Cayley tables.                                                          *)

\* C23: for n >= 1, buildModTable(n, op) has n rows of n entries, entry
\* (i, j) being (i + j) mod n for add and (i * j) mod n for mul, in [0, n);
\* buildModTable(4, mul) has [0, 2, 0, 2] as its row 2
C23_ModTable ==
    Returned("buildModTable") =>
        LET n == call.args[1]
            op == call.args[2]
            A == ret[1]
        IN /\ Len(A) = n
           /\ \A i \in 0..(n - 1) :
                 /\ Len(A[i + 1]) = n
                 /\ \A j \in 0..(n - 1) :
                       /\ A[i + 1][j + 1] \in 0..(n - 1)
                       /\ op = "add" => A[i + 1][j + 1] = (i + j) % n
                       /\ op = "mul" => A[i + 1][j + 1] = (i * j) % n
           /\ (n = 4 /\ op = "mul") => A[3] = <<0, 2, 0, 2>>

\* the multiplication table modulo 4 has been built
C23_Witness ==
    /\ Returned("buildModTable")
    /\ call.args = <<4, "mul">>
    /\ ret[1][3] = <<0, 2, 0, 2>>

---------------------------------------------------------------------------
(* The matrices of the relation and of the Hasse edges.                    *)

\* idx.get(e): the position of e in Uarr counted from 1, 0 for undefined
idxGet(Uarr, e) ==
    IF Has(Uarr, e)
    THEN CHOOSE i \in 1..Len(Uarr) :
            Uarr[i] = e /\ \A j \in (i + 1)..Len(Uarr) : Uarr[j] # e
    ELSE 0

\* Array.from({ length: n }, () => Array(n).fill(0))
ZeroMatrix(n) == [i \in 1..n |-> [j \in 1..n |-> 0]]

\* the loop over the pairs that sets the entries to 1
RECURSIVE FillOnes(_, _, _, _)
FillOnes(Uarr, pairs, k, M) ==
    IF k > Len(pairs) THEN M
    ELSE LET i == idxGet(Uarr, pairs[k][1])
             j == idxGet(Uarr, pairs[k][2])
         IN IF i # 0 /\ j # 0
            THEN FillOnes(Uarr, pairs, k + 1, [M EXCEPT ![i][j] = 1])
            ELSE FillOnes(Uarr, pairs, k + 1, M)

\* faulty variant: a pair with one endpoint in Uarr marks the diagonal
\* entry of that endpoint
RECURSIVE FillOnes_HalfInside(_, _, _, _)
FillOnes_HalfInside(Uarr, pairs, k, M) ==
    IF k > Len(pairs) THEN M
    ELSE LET i == idxGet(Uarr, pairs[k][1])
             j == idxGet(Uarr, pairs[k][2])
         IN IF i # 0 /\ j # 0
            THEN FillOnes_HalfInside(Uarr, pairs, k + 1, [M EXCEPT ![i][j] = 1])
            ELSE IF i # 0
            THEN FillOnes_HalfInside(Uarr, pairs, k + 1, [M EXCEPT ![i][i] = 1])
            ELSE FillOnes_HalfInside(Uarr, pairs, k + 1, M)

\* faulty variant of buildRelationMatrix
buildRelationMatrix_HalfInside(Uarr, pairs) ==
    FillOnes_HalfInside(Uarr, pairs, 1, ZeroMatrix(Len(Uarr)))

buildRelationMatrix(Uarr, pairs) == FillOnes(Uarr, pairs, 1, ZeroMatrix(Len(Uarr)))

buildAdjacencyMatrix(Uarr, cv) == FillOnes(Uarr, cv, 1, ZeroMatrix(Len(Uarr)))

InitMatrix ==
    /\ ret = <<>>
    /\ \/ call \in {[fn |-> "buildRelationMatrix", args |-> <<Uarr, pairs>>] :
                        Uarr \in DistinctSeqs(Elems), pairs \in PairLists}
       \/ call \in {[fn |-> "buildAdjacencyMatrix", args |-> <<Uarr, pairs>>] :
                        Uarr \in DistinctSeqs(Elems), pairs \in PairLists}

CallBuildRelationMatrix ==
    /\ ret = <<>> /\ call.fn = "buildRelationMatrix"
    /\ ret' = <<buildRelationMatrix(call.args[1], call.args[2])>>
    /\ UNCHANGED call

CallBuildAdjacencyMatrix ==
    /\ ret = <<>> /\ call.fn = "buildAdjacencyMatrix"
    /\ ret' = <<buildAdjacencyMatrix(call.args[1], call.args[2])>>
    /\ UNCHANGED call

InitMatrixCall ==
    InitMatrix /\ IdleOrder /\ IdleLayout /\ IdleMod /\ IdleProps /\ IdleExtra

NextMatrix ==
    \/ CallBuildRelationMatrix /\ UNCHANGED <<orderVars, layoutVars, modVars, propsVars, extraVars>>
    \/ CallBuildAdjacencyMatrix /\ UNCHANGED <<orderVars, layoutVars, modVars, propsVars, extraVars>>

SpecMatrix == InitMatrixCall /\ [][NextMatrix]_vars

\* C24: for a duplicate-free Uarr and any pair list, both functions return
\* a |U| x |U| matrix of zeros and ones whose entry [i][j] is 1 exactly
\* when (Uarr[i], Uarr[j]) is in the list; a pair with an endpoint outside
\* the universe changes no entry
C24_MatrixEntries ==
    (Returned("buildRelationMatrix") \/ Returned("buildAdjacencyMatrix")) =>
        LET Uarr == call.args[1]
            pairs == call.args[2]
            M == ret[1]
            n == Len(Uarr)
        IN /\ Len(M) = n
           /\ \A i \in 1..n :
                 /\ Len(M[i]) = n
                 /\ \A j \in 1..n :
                       /\ M[i][j] \in {0, 1}
                       /\ M[i][j] = 1 <=> <<Uarr[i], Uarr[j]>> \in Range(pairs)

\* a matrix over two elements, built from a list with a pair inside the
\* universe, a pair leaving it and a pair entering it
C24_Witness ==
    /\ Returned("buildRelationMatrix")
    /\ Len(call.args[1]) = 2
    /\ \E p, q, r \in Range(call.args[2]) :
          /\ p[1] \in Range(call.args[1]) /\ p[2] \in Range(call.args[1]) /\ p[1] # p[2]
          /\ q[1] \in Range(call.args[1]) /\ q[2] \notin Range(call.args[1])
          /\ r[1] \notin Range(call.args[1]) /\ r[2] \in Range(call.args[1])
    /\ \E i, j \in 1..2 : i # j /\ ret[1][i][j] = 1 /\ ret[1][j][i] = 0

---------------------------------------------------------------------------
(* Cycles among the Hasse edges.                                           *)

\* E has a cycle through two or more distinct elements
ProperCycle(E) ==
    LET T == TC(E) IN \E p \in T : p[1] # p[2] /\ <<p[2], p[1]>> \in T

\* C25: for H with both endpoints of every pair in U, the relation
\* transitiveClosureFromCovers(U, H) is reported antisymmetric, and a
\* partial order, exactly when H has no cycle through two or more
\* distinct elements.  H is every list the user can enter in the box of H.
C25_AntisymmetricIffNoProperCycle ==
    (ops = <<"editH", "closure">> /\ OverU(hasseCovers)) =>
        LET p == relationProps(U, relationPairs, relationSet(relationPairs))
            cyclic == ProperCycle(Range(hasseCovers))
        IN /\ p.antisymmetric <=> ~ cyclic
           /\ isPartialOrder(p) <=> ~ cyclic

\* the closure of a cycle through three elements, entered as H
C25_Witness ==
    /\ ops = <<"editH", "closure">> /\ OverU(hasseCovers)
    /\ Len(U) = 3 /\ Len(hasseCovers) = 3
    /\ \A e \in Range(hasseCovers) : e[1] # e[2] /\ <<e[2], e[1]>> \notin Range(hasseCovers)
    /\ ProperCycle(Range(hasseCovers))
    /\ AntisymmetricScan(relationPairs, 1, relationSet(relationPairs)) # <<>>

---------------------------------------------------------------------------
(* The two boxes of the Hasse tab as texts.  A text is a list of           *)
(* characters; R and H are parseRelation of the texts, and a derivation    *)
(* writes its result into the other box as text.                           *)

\* the characters of an element
Chars(e) ==
    CASE e = "1" -> <<"1">>
      [] e = "3" -> <<"3">>
      [] e = "2)" -> <<"2", ")">>

\* the string made of a list of characters
RECURSIVE StringOf(_)
StringOf(cs) == IF cs = <<>> THEN "" ELSE cs[1] \o StringOf(Tail(cs))

\* String.trim
RECURSIVE Trim(_)
Trim(cs) ==
    IF cs = <<>> THEN cs
    ELSE IF cs[1] = " " THEN Trim(Tail(cs))
    ELSE IF cs[Len(cs)] = " " THEN Trim(SubSeq(cs, 1, Len(cs) - 1))
    ELSE cs

\* String.split(","): the pieces between the commas, empty ones included
RECURSIVE SplitComma(_, _)
SplitComma(cs, piece) ==
    IF cs = <<>> THEN <<piece>>
    ELSE IF cs[1] = "," THEN <<piece>> \o SplitComma(Tail(cs), <<>>)
    ELSE SplitComma(Tail(cs), Append(piece, cs[1]))

\* .map((s) => s.trim()).filter((s) => s.length > 0)
RECURSIVE TrimmedNonEmpty(_)
TrimmedNonEmpty(pieces) ==
    IF pieces = <<>> THEN <<>>
    ELSE LET t == Trim(pieces[1])
         IN (IF t = <<>> THEN <<>> ELSE <<t>>) \o TrimmedNonEmpty(Tail(pieces))

\* the position of the first ")" at or after i, 0 when there is none
RECURSIVE FirstClose(_, _)
FirstClose(text, i) ==
    IF i > Len(text) THEN 0
    ELSE IF text[i] = ")" THEN i
    ELSE FirstClose(text, i + 1)

\* the matches of /\(([^)]+)\)/g from position i on, each turned into a
\* pair when it has two parts or more
RECURSIVE ParseFrom(_, _, _)
ParseFrom(text, i, out) ==
    IF i > Len(text) THEN out
    ELSE IF text[i] # "(" THEN ParseFrom(text, i + 1, out)
    ELSE LET j == FirstClose(text, i + 1)
         IN IF j = 0 THEN out
            ELSE IF j = i + 1 THEN ParseFrom(text, i + 1, out)
            ELSE LET inner == Trim(SubSeq(text, i + 1, j - 1))
                     parts == TrimmedNonEmpty(SplitComma(inner, <<>>))
                 IN ParseFrom(text, j + 1,
                              IF Len(parts) >= 2
                              THEN Append(out, <<StringOf(parts[1]), StringOf(parts[2])>>)
                              ELSE out)

parseRelation(text) == ParseFrom(text, 1, <<>>)

\* pairs.map(([a, b]) => `(${a},${b})`).join(",")
RECURSIVE FormatPairs(_)
FormatPairs(pairs) ==
    IF pairs = <<>> THEN <<>>
    ELSE <<"(">> \o Chars(pairs[1][1]) \o <<",">> \o Chars(pairs[1][2]) \o <<")">>
         \o (IF Len(pairs) = 1 THEN <<>> ELSE <<",">> \o FormatPairs(Tail(pairs)))

\* tokens of parseCSV(UText): no blank, comma or semicolon inside
TextElems == {"1", "3", "2)"}

\* tokens the user types inside pairs
TypedElems == {"1", "3"}

\* longest pair list typed into a box
MaxTextPairs == 2

TypedTexts ==
    {FormatPairs(ps) : ps \in UNION {[1..n -> TypedElems \X TypedElems] : n \in 0..MaxTextPairs}}

InitTexts ==
    /\ U \in DistinctSeqs(TextElems)
    /\ RText \in TypedTexts
    /\ HText \in TypedTexts
    /\ relationPairs = parseRelation(RText)
    /\ hasseCovers = parseRelation(HText)
    /\ orig = <<>>
    /\ ops = <<"start">>

handleGenerateRFromHasse ==
    LET cv == parseRelation(HText)
        closure == transitiveClosureFromCovers(U, cv)
        text == FormatPairs(closure)
    IN /\ RText' = text
       /\ relationPairs' = parseRelation(text)
       /\ ops' = <<"closure">>
       /\ UNCHANGED <<U, HText, hasseCovers, orig>>

handleGenerateHasseFromR ==
    LET cv == coversFromRelation(U, relationPairs, relationSet(relationPairs))
        text == FormatPairs(cv)
    IN /\ HText' = text
       /\ hasseCovers' = parseRelation(text)
       /\ ops' = <<"covers">>
       /\ UNCHANGED <<U, RText, relationPairs, orig>>

\* the text with one more pair typed at its end, or the empty text
EditedTexts(text) ==
    {<<>>} \cup
    {text \o (IF text = <<>> THEN <<>> ELSE <<",">>) \o FormatPairs(<<p>>) :
        p \in TypedElems \X TypedElems}

\* setRText from the box of R
EditRText ==
    /\ Len(relationPairs) < MaxTextPairs \/ RText # <<>>
    /\ \E text \in EditedTexts(RText) :
          /\ text # RText
          /\ text = <<>> \/ Len(relationPairs) < MaxTextPairs
          /\ RText' = text
          /\ relationPairs' = parseRelation(text)
    /\ ops' = <<"editR">>
    /\ UNCHANGED <<U, HText, hasseCovers, orig>>

\* setHText from the box of H
EditHText ==
    /\ \E text \in EditedTexts(HText) :
          /\ text # HText
          /\ text = <<>> \/ Len(hasseCovers) < MaxTextPairs
          /\ HText' = text
          /\ hasseCovers' = parseRelation(text)
    /\ ops' = <<"editH">>
    /\ UNCHANGED <<U, RText, relationPairs, orig>>

InitHasseTab ==
    InitTexts /\ IdleLayout /\ IdleMod /\ IdleArith /\ IdleProps /\ IdleLookup

NextTexts ==
    \/ handleGenerateRFromHasse /\ UNCHANGED <<layoutVars, modVars, arithVars, propsVars, lookupVars>>
    \/ handleGenerateHasseFromR /\ UNCHANGED <<layoutVars, modVars, arithVars, propsVars, lookupVars>>
    \/ EditRText /\ UNCHANGED <<layoutVars, modVars, arithVars, propsVars, lookupVars>>
    \/ EditHText /\ UNCHANGED <<layoutVars, modVars, arithVars, propsVars, lookupVars>>

SpecTexts == InitHasseTab /\ [][NextTexts]_vars

\* C26: handleGenerateRFromHasse sets R to transitiveClosureFromCovers(U, H)
\* and leaves U and H as they are; handleGenerateHasseFromR sets H to
\* coversFromRelation(U, R) and leaves U and R as they are; an edit of R
\* leaves H and an edit of H leaves R as they are
C26_DerivationsAndFrame ==
    [][ /\ ops' = <<"closure">> =>
             /\ relationPairs' = transitiveClosureFromCovers(U, hasseCovers)
             /\ U' = U /\ hasseCovers' = hasseCovers
        /\ ops' = <<"covers">> =>
             /\ hasseCovers' =
                   coversFromRelation(U, relationPairs, relationSet(relationPairs))
             /\ U' = U /\ relationPairs' = relationPairs
        /\ ops' = <<"editR">> => hasseCovers' = hasseCovers
        /\ ops' = <<"editH">> => relationPairs' = relationPairs ]_vars

---------------------------------------------------------------------------
(* The picture returned by layoutHasse.                                    *)

\* comparison of two coordinates, fractions with positive denominators
FracEq(p, q) == p.num * q.den = q.num * p.den
FracLess(p, q) == p.num * q.den < q.num * p.den

\* the position of index i of the universe in a list of positions
PosOf(ps, univ, i) == ps[CHOOSE k \in 1..Len(ps) : ps[k].id = univ[i]]

\* C27: when layoutHasse returns, there is exactly one position for each
\* universe element; an element touched by no edge inside the universe, or
\* without level when the relaxation ends, has level 0; two elements have
\* the same y exactly when they have the same level, and of two elements
\* the one of lower level has the strictly larger y; inside one level x
\* increases in universe order
C27_LayoutPicture ==
    [][ (pc = "relax" /\ pc' = "done") =>
          LET n == Len(universe)
              P(i) == PosOf(positions', universe, i)
              L(i) == levelMap'[universe[i]]
          IN /\ Len(positions') = n
             /\ \A i \in 1..n :
                    Cardinality({k \in 1..Len(positions') :
                                    positions'[k].id = universe[i]}) = 1
             /\ \A i \in 1..n :
                    ( \/ universe[i] \notin DOMAIN levelMap
                      \/ ~ \E e \in LayoutEdges :
                             e[1] = universe[i] \/ e[2] = universe[i] )
                    => L(i) = 0
             /\ \A i, j \in 1..n :
                    /\ FracEq(P(i).y, P(j).y) <=> L(i) = L(j)
                    /\ L(i) < L(j) => FracLess(P(j).y, P(i).y)
                    /\ (i < j /\ L(i) = L(j)) => FracLess(P(i).x, P(j).x) ]_vars

\* a returned picture with two levels, two elements in one of them, and an
\* element that has a predecessor and was given level 0 at the end
C27_Witness ==
    /\ pc = "done"
    /\ \E u, v \in Range(universe) : levelMap[u] # levelMap[v]
    /\ \E u, v \in Range(universe) : u # v /\ levelMap[u] = levelMap[v]
    /\ \E u \in Range(universe) :
          /\ Len(preds[u]) > 0
          /\ levelMap[u] = 0
          /\ u # universe[1]

---------------------------------------------------------------------------
(* Extrema: minimal and maximal elements, minimum and maximum.  A          *)
(* Set<string> of keys is a set; a found element e is <<e>>, null is <<>>. *)

\* Array.find: the first element of s among those passing the test, or null
Find(s, passing) ==
    IF \E i \in 1..Len(s) : s[i] \in passing
    THEN <<s[CHOOSE i \in 1..Len(s) :
                 s[i] \in passing /\ \A j \in 1..(i - 1) : s[j] \notin passing]>>
    ELSE null

\* faulty variant: the first minimal and the first maximal are returned
\* without the comparison with every element
computeExtremaByR_FirstFound(Uset, relSet) ==
    LET arr == Uset
        leq(a, b) == pairKey(a, b) \in relSet
        hasSmaller(x) == \E i \in 1..Len(arr) : arr[i] # x /\ leq(arr[i], x)
        hasGreater(x) == \E i \in 1..Len(arr) : arr[i] # x /\ leq(x, arr[i])
        minimals == SelectSeq(arr, LAMBDA x : ~ hasSmaller(x))
        maximals == SelectSeq(arr, LAMBDA x : ~ hasGreater(x))
    IN [minimals |-> minimals,
        maximals |-> maximals,
        minimum  |-> Find(minimals, Range(arr)),
        maximum  |-> Find(maximals, Range(arr))]

computeExtremaByR(Uset, relSet) ==
    LET arr == Uset
        leq(a, b) == pairKey(a, b) \in relSet
        hasSmaller(x) == \E i \in 1..Len(arr) : arr[i] # x /\ leq(arr[i], x)
        hasGreater(x) == \E i \in 1..Len(arr) : arr[i] # x /\ leq(x, arr[i])
        minimals == SelectSeq(arr, LAMBDA x : ~ hasSmaller(x))
        maximals == SelectSeq(arr, LAMBDA x : ~ hasGreater(x))
    IN [minimals |-> minimals,
        maximals |-> maximals,
        minimum  |-> Find(minimals, {m \in Range(arr) : \A i \in 1..Len(arr) : leq(m, arr[i])}),
        maximum  |-> Find(maximals, {M \in Range(arr) : \A i \in 1..Len(arr) : leq(arr[i], M)})]

computeExtremaByClosure(Uset, closure) ==
    LET arr == Uset
        leq(a, b) == pairKey(a, b) \in closure
        hasSmaller(x) == \E i \in 1..Len(arr) : arr[i] # x /\ leq(arr[i], x)
        hasGreater(x) == \E i \in 1..Len(arr) : arr[i] # x /\ leq(x, arr[i])
        minimals == SelectSeq(arr, LAMBDA x : ~ hasSmaller(x))
        maximals == SelectSeq(arr, LAMBDA x : ~ hasGreater(x))
    IN [minimals |-> minimals,
        maximals |-> maximals,
        minimum  |-> Find(minimals, {m \in Range(arr) : \A i \in 1..Len(arr) : leq(m, arr[i])}),
        maximum  |-> Find(maximals, {M \in Range(arr) : \A i \in 1..Len(arr) : leq(arr[i], M)})]

\* the loop over the covers that fills preds and succs; a cover with an
\* endpoint outside the universe is skipped
RECURSIVE LinkCovers(_, _, _)
LinkCovers(cv, k, st) ==
    IF k > Len(cv) THEN st
    ELSE LET a == cv[k][1]
             b == cv[k][2]
         IN IF b \notin DOMAIN st.preds \/ a \notin DOMAIN st.succs
            THEN LinkCovers(cv, k + 1, st)
            ELSE LinkCovers(cv, k + 1,
                            [preds |-> [st.preds EXCEPT ![b] = @ \cup {a}],
                             succs |-> [st.succs EXCEPT ![a] = @ \cup {b}]])

\* faulty variant: the elements without successor are returned as the
\* minimals and those without predecessor as the maximals
computeMinMaxByHasse_Swapped(univ, cv) ==
    LET none == [u \in Range(univ) |-> {}]
        st == LinkCovers(cv, 1, [preds |-> none, succs |-> none])
    IN [minimals |-> SelectSeq(univ, LAMBDA u : st.succs[u] = {}),
        maximals |-> SelectSeq(univ, LAMBDA u : st.preds[u] = {})]

computeMinMaxByHasse(univ, cv) ==
    LET none == [u \in Range(univ) |-> {}]
        st == LinkCovers(cv, 1, [preds |-> none, succs |-> none])
    IN [minimals |-> SelectSeq(univ, LAMBDA u : st.preds[u] = {}),
        maximals |-> SelectSeq(univ, LAMBDA u : st.succs[u] = {})]

\* the loop that fills adj: adj.get(a) is the insertion-ordered set of the
\* successors of a, a pair with an endpoint outside U adds nothing
RECURSIVE FillAdj(_, _, _, _)
FillAdj(Uset, relPairs, k, adj) ==
    IF k > Len(relPairs) THEN adj
    ELSE LET a == relPairs[k][1]
             b == relPairs[k][2]
         IN IF Has(Uset, a) /\ Has(Uset, b)
            THEN FillAdj(Uset, relPairs, k + 1,
                         [adj EXCEPT ![a] = IF Has(@, b) THEN @ ELSE Append(@, b)])
            ELSE FillAdj(Uset, relPairs, k + 1, adj)

\* the while (stack.length) loop of one start element a
RECURSIVE ReachFrom(_, _, _, _, _)
ReachFrom(adj, a, stack, seen, reach) ==
    IF stack = <<>> THEN reach
    ELSE LET v == stack[Len(stack)]
             rest == SubSeq(stack, 1, Len(stack) - 1)
         IN IF v \in seen THEN ReachFrom(adj, a, rest, seen, reach)
            ELSE LET seen2 == seen \cup {v}
                     nxts == IF v \in DOMAIN adj
                             THEN SelectSeq(adj[v], LAMBDA n : n \notin seen2)
                             ELSE <<>>
                 IN ReachFrom(adj, a, rest \o nxts, seen2,
                              reach \cup {pairKey(a, v)})

\* the for (const a of U) loop
RECURSIVE ReachAll(_, _, _, _)
ReachAll(Uset, adj, i, reach) ==
    IF i > Len(Uset) THEN reach
    ELSE ReachAll(Uset, adj, i + 1,
                  ReachFrom(adj, Uset[i], adj[Uset[i]], {}, reach))

\* faulty variant: adj starts without the element itself
closureFromRelation_NotReflexive(Uset, relPairs) ==
    LET adj == FillAdj(Uset, relPairs, 1, [u \in Range(Uset) |-> <<>>])
    IN ReachAll(Uset, adj, 1, {})

closureFromRelation(Uset, relPairs) ==
    LET adj == FillAdj(Uset, relPairs, 1, [u \in Range(Uset) |-> <<u>>])
    IN ReachAll(Uset, adj, 1, {})

\* every membership set over the keys of the elements
KeySets == SUBSET {pairKey(a, b) : a \in Elems, b \in Elems}

InitExtrema ==
    /\ ret = <<>>
    /\ \/ call \in {[fn |-> "computeExtremaByR", args |-> <<Uset, keys>>] :
                        Uset \in DistinctSeqs(Elems), keys \in KeySets}
       \/ call \in {[fn |-> "computeExtremaByClosure", args |-> <<Uset, keys>>] :
                        Uset \in DistinctSeqs(Elems), keys \in KeySets}
       \/ call \in {[fn |-> "closureFromRelation", args |-> <<Uset, pairs>>] :
                        Uset \in DistinctSeqs(Elems), pairs \in PairLists}
       \/ call \in {[fn |-> "computeMinMaxByHasse", args |-> <<Uset, pairs>>] :
                        Uset \in DistinctSeqs(Elems), pairs \in PairLists}

CallComputeExtremaByR ==
    /\ ret = <<>> /\ call.fn = "computeExtremaByR"
    /\ ret' = <<computeExtremaByR(call.args[1], call.args[2])>>
    /\ UNCHANGED call

CallComputeExtremaByClosure ==
    /\ ret = <<>> /\ call.fn = "computeExtremaByClosure"
    /\ ret' = <<computeExtremaByClosure(call.args[1], call.args[2])>>
    /\ UNCHANGED call

CallClosureFromRelation ==
    /\ ret = <<>> /\ call.fn = "closureFromRelation"
    /\ ret' = <<closureFromRelation(call.args[1], call.args[2])>>
    /\ UNCHANGED call

CallComputeMinMaxByHasse ==
    /\ ret = <<>> /\ call.fn = "computeMinMaxByHasse"
    /\ ret' = <<computeMinMaxByHasse(call.args[1], call.args[2])>>
    /\ UNCHANGED call

InitExtremaCall ==
    InitExtrema /\ IdleOrder /\ IdleLayout /\ IdleMod /\ IdleProps /\ IdleExtra

NextExtrema ==
    \/ CallComputeExtremaByR /\ UNCHANGED <<orderVars, layoutVars, modVars, propsVars, extraVars>>
    \/ CallComputeExtremaByClosure /\ UNCHANGED <<orderVars, layoutVars, modVars, propsVars, extraVars>>
    \/ CallClosureFromRelation /\ UNCHANGED <<orderVars, layoutVars, modVars, propsVars, extraVars>>
    \/ CallComputeMinMaxByHasse /\ UNCHANGED <<orderVars, layoutVars, modVars, propsVars, extraVars>>

SpecExtrema == InitExtremaCall /\ [][NextExtrema]_vars

\* the membership set is a partial order on the elements of Uset
PartialOrderOn(Uset, keys) ==
    LET S == Range(Uset)
        leq(a, b) == pairKey(a, b) \in keys
    IN /\ \A a \in S : leq(a, a)
       /\ \A a, b \in S : (leq(a, b) /\ leq(b, a)) => a = b
       /\ \A a, b, c \in S : (leq(a, b) /\ leq(b, c)) => leq(a, c)

\* C28: a non-null minimum returned by computeExtremaByR, and likewise by
\* computeExtremaByClosure, is the only element of minimals and is below
\* every element of U in the membership set; a non-null maximum is the only
\* element of maximals and is above every element of U; for a partial order
\* on a non-empty U the minimum is non-null exactly when minimals has
\* exactly one element
C28_MinimumIsLeast ==
    (Returned("computeExtremaByR") \/ Returned("computeExtremaByClosure")) =>
        LET Uset == call.args[1]
            keys == call.args[2]
            r == ret[1]
        IN /\ r.minimum # null =>
                 /\ r.minimals = r.minimum
                 /\ \A y \in Range(Uset) : pairKey(r.minimum[1], y) \in keys
           /\ r.maximum # null =>
                 /\ r.maximals = r.maximum
                 /\ \A y \in Range(Uset) : pairKey(y, r.maximum[1]) \in keys
           /\ (Uset # <<>> /\ PartialOrderOn(Uset, keys)) =>
                 (r.minimum # null <=> Len(r.minimals) = 1)

\* a partial order on three elements with a minimum and two maximals
C28_Witness ==
    /\ Returned("computeExtremaByR")
    /\ Len(call.args[1]) = 3
    /\ PartialOrderOn(call.args[1], call.args[2])
    /\ ret[1].minimum # null
    /\ ret[1].maximum = null
    /\ Len(ret[1].maximals) = 2

\* C29: for a pair list H with both endpoints of every pair in U, the key
\* set returned by closureFromRelation(U, H) is the set of the keys of the
\* pairs returned by transitiveClosureFromCovers(U, H)
C29_ClosuresAgree ==
    (/\ Returned("closureFromRelation")
     /\ \A p \in Range(call.args[2]) :
            Has(call.args[1], p[1]) /\ Has(call.args[1], p[2])) =>
        ret[1] = relationSet(transitiveClosureFromCovers(call.args[1], call.args[2]))

\* a chain of two pairs inside U: the closure holds a key that neither
\* the list nor the diagonal gives
C29_Witness ==
    /\ Returned("closureFromRelation")
    /\ \A p \in Range(call.args[2]) :
           Has(call.args[1], p[1]) /\ Has(call.args[1], p[2])
    /\ \E a, b \in Range(call.args[1]) :
          /\ a # b
          /\ pairKey(a, b) \in ret[1]
          /\ <<a, b>> \notin Range(call.args[2])

\* C30: for a duplicate-free universe and a cover list H without pair
\* (a,a), computeMinMaxByHasse(universe, H) returns the minimals and the
\* maximals, same elements in the same order, that computeExtremaByClosure
\* returns for closureFromRelation(U, H); H may hold pairs with an endpoint
\* outside U and cycles
C30_HasseExtremaAgree ==
    (/\ Returned("computeMinMaxByHasse")
     /\ \A p \in Range(call.args[2]) : p[1] # p[2]) =>
        LET byClosure == computeExtremaByClosure(call.args[1],
                             closureFromRelation(call.args[1], call.args[2]))
        IN /\ ret[1].minimals = byClosure.minimals
           /\ ret[1].maximals = byClosure.maximals

\* covers without self-loop: a pair inside the universe and a pair that
\* enters a minimal element from outside the universe
C30_Witness ==
    /\ Returned("computeMinMaxByHasse")
    /\ \A p \in Range(call.args[2]) : p[1] # p[2]
    /\ \E p \in Range(call.args[2]) :
          /\ ~ Has(call.args[1], p[1])
          /\ Has(call.args[1], p[2])
          /\ p[2] \in Range(ret[1].minimals)
    /\ \E p \in Range(call.args[2]) :
          Has(call.args[1], p[1]) /\ Has(call.args[1], p[2])
    /\ ret[1].minimals # ret[1].maximals

=============================================================================
